---------------------------- MODULE Spec2Model ----------------------------
(***************************************************************************)
(* Model of the outage_query repository:                                   *)
(*   resources/tweet_analyzer.py  - the Anomaly Detector (lambda_handler)  *)
(*   resources/tweet_query.py     - the Ingestion Fetcher (lambda_handler) *)
(* Time is the integer number of seconds since the epoch, as produced by   *)
(* int(datetime.timestamp(...)) in the code.                               *)
(***************************************************************************)
EXTENDS Integers, Sequences, FiniteSets

VARIABLES
    clock,          \* the wall clock, in whole seconds (int(datetime.now().timestamp()))
    table,          \* DynamoDB table: tweetID -> created_at
    parameter,      \* SSM parameter /hashtag_query/last_notification, as an integer
    topic,          \* messages accepted by the SNS topic, oldest first
    dpc,            \* Detector invocation p: position in lambda_handler
    end_time,       \* Detector locals, per invocation
    start_time,
    distribution,
    stdev,
    last_sent,
    five_hours_ago,
    now,
    dcalls,         \* Detector invocation p: external calls made so far, in order
    fpc,            \* Fetcher invocation f: position in lambda_handler
    fstart_time,    \* Fetcher locals, per invocation
    next_token,
    querystring,    \* the next_token / start_time part of the last request
    status,         \* res.status of the last answer
    meta,           \* tweets_data["meta"] of the last answer
    pending,        \* how many tweets of tweets_data["data"] the for loop has not reached
    nsearch,        \* Fetcher invocation f: search calls made so far
    fputs,          \* Fetcher invocation f: put_item calls made so far, per tweet id
    freturned,      \* Fetcher invocation f: tweet ids the loop has met in the pages so far
    fwrote,         \* Fetcher invocation f: its put_item calls applied to an empty table
    api,            \* the search API: the tweets and cursors it may return, the
                    \* longest chain of pages
    table0,         \* the table as the state after deployment found it
    lastsent,       \* LASTSENT in the analyzer's environment: the name of the
                    \* parameter the Detector reads and writes
    undelivered,    \* publish calls that raised, oldest first
    bw,             \* bin walk applied to the handler's inputs
    store           \* put_item applied to a table seen as a collection of items

dvars == <<dpc, end_time, start_time, distribution, stdev, last_sent,
           five_hours_ago, now, dcalls>>
fvars == <<fpc, fstart_time, next_token, querystring, status, meta, pending,
           nsearch, fputs, freturned, fwrote>>
evars == <<api, table0, lastsent>>
vars == <<clock, table, parameter, topic, undelivered, dvars, fvars, evars, bw,
          store>>

-----------------------------------------------------------------------------
(* Program constants.  TimeoutDuration is the function timeout the stack sets *)
(* from config.json (hashtag_cdk_stack.py, line 153), taken at the ceiling   *)
(* Lambda allows, 900 s; HourSeconds is timedelta(hours=1) in seconds.       *)

HOURS_AGO == 6
BinSeconds == 3600
Threshold == 100
CooldownHours == 5
HourSeconds == 3600
LastNotificationInitial == 0
TimeoutDuration == 900

QUERYTIME == 1
StatusOK == 200

(* Bounds of the model *)

MaxHours == 10
MaxSec == 1
MaxPages == 3
MaxPageLen == 2
MaxEdgeDistance == 1
MaxIds == 4
MaxOverlapPages == 1
MaxTime == 2
MaxRate == 2
HeavyRate == 120
MaxThreshold == 3

DProcs == {1, 2}
FProcs == {1, 2}
None == -1

ClockValues == {h * HourSeconds + s : h \in 0..MaxHours, s \in 0..MaxSec}

-----------------------------------------------------------------------------
(* Sample contents of the event table.  SpikeTable holds 2 events at 02:30, *)
(* 9 at 03:30 and 247 at 04:30 (hours after the epoch of the model): a     *)
(* six-bin window holding all three has a standard deviation of exactly    *)
(* 100, narrower windows fall below or above it.                           *)

\* The two parameters the stacks provision, and what LASTSENT names in each
\* stack.  The East constructor binds param to LastNotification (line 43) and
\* binds it again to GlobalTableParameter (line 106) before it builds the
\* analyzer's environment (line 155); the West constructor binds it once.
LastNotificationName == "/hashtag_query/last_notification"
GlobalTableParameterName == "/hashtag_query/global_table_name"
GlobalTableName == "GlobalTable"
EastLastSent == GlobalTableParameterName
WestLastSent == LastNotificationName
LastSentNames == {EastLastSent, WestLastSent}

EmptyTable == [id \in {} |-> 0]
SpikeTable == [id \in 1..258 |->
                 IF id <= 2 THEN 9000 ELSE IF id <= 11 THEN 12600 ELSE 16200]
SampleTables == {EmptyTable, SpikeTable}

\* A steady rate: the same number of events at half past every hour.
UniformTable(rate) ==
    [id \in 1..(rate * (MaxHours + 1)) |->
        ((id - 1) \div rate) * HourSeconds + HourSeconds \div 2]
UniformTables == {UniformTable(r) : r \in (1..MaxRate) \cup {HeavyRate}}

-----------------------------------------------------------------------------
(* tweet_analyzer.py, pure parts *)

\* Mutation of count_range_in_list: the upper end is exclusive.
count_range_half_open(list, min, max) ==
    Cardinality({k \in DOMAIN list : min <= list[k] /\ list[k] < max})

\* count_range_in_list: how many items of list lie in [min, max], both ends
\* inclusive.  list is any function (a sequence, or items keyed by id):
\* the loop visits every item once and the order does not matter.
count_range_in_list(list, min, max) ==
    Cardinality({k \in DOMAIN list : min <= list[k] /\ list[k] <= max})

\* table.scan(FilterExpression=Key('created_at').between(lo, hi)) followed by
\* mylist = [l['created_at'] for l in response['Items']]
scan_created_at(tbl, lo, hi) ==
    LET hit == {id \in DOMAIN tbl : lo <= tbl[id] /\ tbl[id] <= hi}
    IN  [id \in hit |-> tbl[id]]

\* The while loop of lines 68-75: the body runs before the test (do-while).
RECURSIVE bin_loop(_, _, _, _, _, _)
bin_loop(list, min, max, end, i, dist) ==
    LET counted == Append(dist, count_range_in_list(list, min, max))
    IN  IF max + i > end
        THEN counted
        ELSE bin_loop(list, max, max + i, end, i, counted)

bin_walk(list, start, end, i) == bin_loop(list, start, start + i, end, i, <<>>)

RECURSIVE SumSeq(_)
SumSeq(s) == IF s = <<>> THEN 0 ELSE Head(s) + SumSeq(Tail(s))

\* statistics.variance(data) for integers, as the exact fraction <<num, den>>:
\* sum((x - mean)^2) / (n - 1) = (n*sum(x^2) - sum(x)^2) / (n*(n - 1)).
\* Mutation of variance: the squares are summed about zero, not the mean.
variance_about_zero(data) ==
    LET n == Len(data)
        sq == [k \in 1..n |-> data[k] * data[k]]
    IN  <<n * SumSeq(sq), n * (n - 1)>>

variance(data) ==
    LET n == Len(data)
        sq == [k \in 1..n |-> data[k] * data[k]]
    IN  <<n * SumSeq(sq) - SumSeq(data) * SumSeq(data), n * (n - 1)>>

\* Mutation of stdev_below: the comparison is turned round.
stdev_below_inverted(sd, t) == sd[1] > t * t * sd[2]

\* statistics.stdev(data) < t, for t >= 0: sqrt(num/den) < t.
stdev_below(sd, t) == sd[1] < t * t * sd[2]

\* lines 79-88: where lambda_handler goes once the distribution is known.
\* statistics.stdev raises StatisticsError on fewer than two data points and
\* nothing catches it; a stdev below the threshold returns.
after_stdev(dist) ==
    IF Len(dist) < 2
    THEN "raised_statistics"
    ELSE IF stdev_below(variance(dist), Threshold)
         THEN "exit_within_boundaries"
         ELSE "get_parameter"

-----------------------------------------------------------------------------
(* tweet_query.py, pure parts, and the remote search API *)

SeqsUpTo(S, n) == UNION {[1..k -> S] : k \in 0..n}

TweetIds == {1, 2}

\* The API's created_at strings: an ISO-8601 instant with milliseconds, or a
\* text dateutil cannot parse.
ApiStamps == {[ok |-> TRUE, sec |-> 16200, ms |-> 0],
              [ok |-> TRUE, sec |-> 16201, ms |-> 500],
              [ok |-> FALSE, sec |-> 0, ms |-> 0]}

Tweets == [id : TweetIds, created_at : ApiStamps]

\* Cursors the API may hand out; "" is a value Python treats as false.
Tokens == {"", "c1", "c2"}

NoMeta == [result_count |-> 0, has_next |-> FALSE, next_token |-> ""]
Absent == "<absent>"

ErrorStatuses == {500}

\* What the search API may answer: a failure, or a page of 0..MaxPageLen
\* tweets with or without a cursor (one of api.tokens).  The n-th answer of
\* an invocation carries no cursor once n reaches api.pages (the chain of
\* cursors is finite).
Responses(last) ==
    {[status |-> st, meta |-> NoMeta] : st \in ErrorStatuses}
    \cup
    {[status |-> StatusOK,
      meta |-> [result_count |-> n, has_next |-> TRUE, next_token |-> t]] :
        n \in 0..MaxPageLen, t \in IF last THEN {} ELSE api.tokens}
    \cup
    {[status |-> StatusOK,
      meta |-> [result_count |-> n, has_next |-> FALSE, next_token |-> ""]] :
        n \in 0..MaxPageLen}

\* Mutation of request_failed: the status test is lost.
request_failed_never(st) == FALSE

\* line 63: if res.status != 200
request_failed(st) == st # StatusOK

\* Mutation of no_results: the count test is lost.
no_results_never(count) == FALSE

\* line 70: if count == 0
no_results(count) == count = 0

\* line 90: int(dt.datetime.timestamp(parser.parse(created_at))), defined when
\* the text parses; int() drops the milliseconds.
parse_created_at(c) == c.sec

\* lines 42-53: the part of the query string that changes between requests.
\* A key the dict does not hold is Absent (None for start_time).
make_querystring(tok, start) ==
    IF tok # ""
    THEN [next_token |-> tok, start_time |-> None]
    ELSE [next_token |-> Absent, start_time |-> start]

\* Mutation of put_item: the key is a literal, not the tweet's id.
put_item_fixed_key(tbl, id, time) ==
    [k \in DOMAIN tbl \cup {1} |-> IF k = 1 THEN time ELSE tbl[k]]

\* lines 93-98: table.put_item keyed by tweetID: insert or overwrite.
put_item(tbl, id, time) ==
    [k \in DOMAIN tbl \cup {id} |-> IF k = id THEN time ELSE tbl[k]]

NoPuts == [id \in TweetIds |-> 0]
NoQuery == [next_token |-> Absent, start_time |-> None]

\* The table as DynamoDB holds it: a collection of items {tweetID, created_at}.
\* The key schema (hashtag_cdk_stack.py, lines 88-93) has a partition key,
\* tweetID, and no sort key.
Events == [tweetID : 1..MaxIds, created_at : 0..MaxTime]

\* Mutation of KeyOf: created_at is made a sort key.
KeyOf_WithSortKey(item) == <<item.tweetID, item.created_at>>

\* The primary key of an item under the table's key schema.
KeyOf(item) == item.tweetID

\* lines 93-98 on the collection of items: put_item replaces the item that
\* has the same primary key, or adds the item when there is none.
put_item_keyed(items, item) ==
    {x \in items : KeyOf(x) # KeyOf(item)} \cup {item}

\* The two views of the table: items, and tweetID -> created_at.
AsItems(tbl) == {[tweetID |-> id, created_at |-> tbl[id]] : id \in DOMAIN tbl}
AsTable(items) ==
    [id \in {x.tweetID : x \in items} |->
        (CHOOSE x \in items : x.tweetID = id).created_at]

NoStore == [items |-> {}, last |-> <<>>, replaced |-> FALSE]

BwIdle == [phase |-> "idle", list |-> <<>>, start |-> 0, end |-> 0, i |-> 1,
           distribution |-> <<>>, outcome |-> ""]

-----------------------------------------------------------------------------
DInit ==
    /\ dpc = [p \in DProcs |-> "idle"]
    /\ end_time = [p \in DProcs |-> None]
    /\ start_time = [p \in DProcs |-> None]
    /\ distribution = [p \in DProcs |-> <<>>]
    /\ stdev = [p \in DProcs |-> <<>>]
    /\ last_sent = [p \in DProcs |-> None]
    /\ five_hours_ago = [p \in DProcs |-> None]
    /\ now = [p \in DProcs |-> None]
    /\ dcalls = [p \in DProcs |-> <<>>]

FInit ==
    /\ fpc = [f \in FProcs |-> "idle"]
    /\ fstart_time = [f \in FProcs |-> None]
    /\ next_token = [f \in FProcs |-> ""]
    /\ querystring = [f \in FProcs |-> NoQuery]
    /\ status = [f \in FProcs |-> None]
    /\ meta = [f \in FProcs |-> NoMeta]
    /\ pending = [f \in FProcs |-> 0]
    /\ nsearch = [f \in FProcs |-> 0]
    /\ fputs = [f \in FProcs |-> NoPuts]
    /\ freturned = [f \in FProcs |-> {}]
    /\ fwrote = [f \in FProcs |-> EmptyTable]

\* The state after deployment: the parameter holds "0" (hashtag_cdk_stack.py),
\* nothing was published, no invocation runs.  The table holds whatever
\* earlier fetches left in it.
Init ==
    /\ clock \in ClockValues
    /\ table \in SampleTables
    /\ parameter = LastNotificationInitial
    /\ topic = <<>>
    /\ undelivered = <<>>
    /\ DInit
    /\ FInit
    /\ api = [tweets |-> Tweets, pages |-> MaxPages, tokens |-> Tokens]
    /\ table0 = table
    /\ lastsent \in LastSentNames
    /\ bw = BwIdle
    /\ store = NoStore

Running(p) == dpc[p] # "idle"

\* Time passes.  An invocation cannot outlive the Lambda timeout, counted from
\* its first clock read.
Tick ==
    /\ \E c \in ClockValues :
         /\ c > clock
         /\ \A p \in DProcs : Running(p) => c - end_time[p] <= TimeoutDuration
         /\ clock' = c
    /\ UNCHANGED <<fvars, evars, bw, store>>
    /\ UNCHANGED <<table, parameter, topic, undelivered, dvars>>

\* line 37: end_time = int(datetime.timestamp(datetime.now()))
DInvoke(p) ==
    /\ dpc[p] = "idle"
    /\ end_time' = [end_time EXCEPT ![p] = clock]
    /\ dpc' = [dpc EXCEPT ![p] = "start_time"]
    /\ UNCHANGED <<fvars, evars, bw, store>>
    /\ UNCHANGED <<clock, table, parameter, topic, undelivered, start_time, distribution,
                   stdev, last_sent, five_hours_ago, now, dcalls>>

\* line 38: start_time = int(timestamp(datetime.now() - timedelta(hours=HOURS_AGO)))
DStartTime(p) ==
    /\ dpc[p] = "start_time"
    /\ start_time' = [start_time EXCEPT ![p] = clock - HOURS_AGO * HourSeconds]
    /\ dpc' = [dpc EXCEPT ![p] = "scan"]
    /\ UNCHANGED <<fvars, evars, bw, store>>
    /\ UNCHANGED <<clock, table, parameter, topic, undelivered, end_time, distribution,
                   stdev, last_sent, five_hours_ago, now, dcalls>>

\* Mutation of DScan: the records the scan returned are deleted from the table.
DScan_DeletesScanned(p) ==
    /\ dpc[p] = "scan"
    /\ \E mylist \in {scan_created_at(table, start_time[p], end_time[p])} :
       \E dist \in {bin_walk(mylist, start_time[p], end_time[p], BinSeconds)} :
           /\ distribution' = [distribution EXCEPT ![p] = dist]
           /\ stdev' = IF Len(dist) < 2
                       THEN stdev
                       ELSE [stdev EXCEPT ![p] = variance(dist)]
           /\ dpc' = [dpc EXCEPT ![p] = after_stdev(dist)]
           /\ table' = [id \in DOMAIN table \ DOMAIN mylist |-> table[id]]
    /\ dcalls' = [dcalls EXCEPT ![p] = Append(@, [op |-> "scan", arg |-> <<start_time[p], end_time[p]>>])]
    /\ UNCHANGED <<fvars, evars, bw, store>>
    /\ UNCHANGED <<clock, parameter, topic, undelivered, end_time, start_time,
                   last_sent, five_hours_ago, now>>

\* lines 41-88: scan, bin walk, stdev, threshold test
DScan(p) ==
    /\ dpc[p] = "scan"
    /\ \E mylist \in {scan_created_at(table, start_time[p], end_time[p])} :
       \E dist \in {bin_walk(mylist, start_time[p], end_time[p], BinSeconds)} :
           /\ distribution' = [distribution EXCEPT ![p] = dist]
           /\ stdev' = IF Len(dist) < 2
                       THEN stdev   \* statistics.stdev raised
                       ELSE [stdev EXCEPT ![p] = variance(dist)]
           /\ dpc' = [dpc EXCEPT ![p] = after_stdev(dist)]
    /\ dcalls' = [dcalls EXCEPT ![p] = Append(@, [op |-> "scan", arg |-> <<start_time[p], end_time[p]>>])]
    /\ UNCHANGED <<fvars, evars, bw, store>>
    /\ UNCHANGED <<clock, table, parameter, topic, undelivered, end_time, start_time,
                   last_sent, five_hours_ago, now>>

\* lines 95-97: last_sent = int(ssm.get_parameter(Name=os.environ['LASTSENT'])).
\* The value of the last-notification parameter is a number in text; the value
\* of the global-table parameter is the table's name, on which int() raises
\* ValueError, and nothing catches it.
DGetParameter(p) ==
    /\ dpc[p] = "get_parameter"
    /\ IF lastsent = LastNotificationName
       THEN /\ last_sent' = [last_sent EXCEPT ![p] = parameter]
            /\ dpc' = [dpc EXCEPT ![p] = "five_hours_ago"]
            /\ dcalls' = [dcalls EXCEPT ![p] =
                             Append(@, [op |-> "get_parameter", arg |-> parameter])]
       ELSE /\ last_sent' = last_sent
            /\ dpc' = [dpc EXCEPT ![p] = "raised_value"]
            /\ dcalls' = [dcalls EXCEPT ![p] =
                             Append(@, [op |-> "get_parameter", arg |-> GlobalTableName])]
    /\ UNCHANGED <<fvars, evars, bw, store>>
    /\ UNCHANGED <<clock, table, parameter, topic, undelivered, end_time, start_time,
                   distribution, stdev, five_hours_ago, now>>

\* line 99: five_hours_ago = int(timestamp(datetime.now() - timedelta(hours=5)))
DFiveHoursAgo(p) ==
    /\ dpc[p] = "five_hours_ago"
    /\ five_hours_ago' = [five_hours_ago EXCEPT
                            ![p] = clock - CooldownHours * HourSeconds]
    /\ dpc' = [dpc EXCEPT ![p] = "now"]
    /\ UNCHANGED <<fvars, evars, bw, store>>
    /\ UNCHANGED <<clock, table, parameter, topic, undelivered, end_time, start_time,
                   distribution, stdev, last_sent, now, dcalls>>

\* Mutation of DNow: the cooldown gate is missing.
DNow_NoGate(p) ==
    /\ dpc[p] = "now"
    /\ now' = [now EXCEPT ![p] = clock]
    /\ dpc' = [dpc EXCEPT ![p] = "put_parameter"]
    /\ UNCHANGED <<fvars, evars, bw, store>>
    /\ UNCHANGED <<clock, table, parameter, topic, undelivered, end_time, start_time,
                   distribution, stdev, last_sent, five_hours_ago, dcalls>>

\* Mutation of DNow: past the gate, the checkpoint write is skipped.
DNow_SkipsWrite(p) ==
    /\ dpc[p] = "now"
    /\ now' = [now EXCEPT ![p] = clock]
    /\ dpc' = [dpc EXCEPT ![p] = IF last_sent[p] > five_hours_ago[p]
                                 THEN "exit_too_soon"
                                 ELSE "publish"]
    /\ UNCHANGED <<fvars, evars, bw, store>>
    /\ UNCHANGED <<clock, table, parameter, topic, undelivered, end_time, start_time,
                   distribution, stdev, last_sent, five_hours_ago, dcalls>>

\* Mutation of DNow: the cooldown test is turned round.
DNow_Inverted(p) ==
    /\ dpc[p] = "now"
    /\ now' = [now EXCEPT ![p] = clock]
    /\ dpc' = [dpc EXCEPT ![p] = IF last_sent[p] < five_hours_ago[p]
                                 THEN "exit_too_soon"
                                 ELSE "put_parameter"]
    /\ UNCHANGED <<fvars, evars, bw, store>>
    /\ UNCHANGED <<clock, table, parameter, topic, undelivered, end_time, start_time,
                   distribution, stdev, last_sent, five_hours_ago, dcalls>>

\* lines 100-105: now = int(datetime.now().timestamp()); the cooldown gate
DNow(p) ==
    /\ dpc[p] = "now"
    /\ now' = [now EXCEPT ![p] = clock]
    /\ dpc' = [dpc EXCEPT ![p] = IF last_sent[p] > five_hours_ago[p]
                                 THEN "exit_too_soon"
                                 ELSE "put_parameter"]
    /\ UNCHANGED <<fvars, evars, bw, store>>
    /\ UNCHANGED <<clock, table, parameter, topic, undelivered, end_time, start_time,
                   distribution, stdev, last_sent, five_hours_ago, dcalls>>

\* Mutation of DPutParameter: the value read is written back, not now.
DPutParameter_WritesOld(p) ==
    /\ dpc[p] = "put_parameter"
    /\ parameter' = last_sent[p]
    /\ dpc' = [dpc EXCEPT ![p] = "publish"]
    /\ dcalls' = [dcalls EXCEPT ![p] = Append(@, [op |-> "put_parameter", arg |-> last_sent[p]])]
    /\ UNCHANGED <<fvars, evars, bw, store>>
    /\ UNCHANGED <<clock, table, topic, undelivered, end_time, start_time, distribution,
                   stdev, last_sent, five_hours_ago, now>>

\* lines 108-112: ssm.put_parameter(Value=str(now), Overwrite=True)
DPutParameter(p) ==
    /\ dpc[p] = "put_parameter"
    /\ parameter' = now[p]
    /\ dpc' = [dpc EXCEPT ![p] = "publish"]
    /\ dcalls' = [dcalls EXCEPT ![p] = Append(@, [op |-> "put_parameter", arg |-> now[p]])]
    /\ UNCHANGED <<fvars, evars, bw, store>>
    /\ UNCHANGED <<clock, table, topic, undelivered, end_time, start_time, distribution,
                   stdev, last_sent, five_hours_ago, now>>

\* lines 118-120: the message text carries str(distribution) and str(stdev)
Message(p) == [distribution |-> distribution[p], stdev |-> stdev[p]]

\* lines 121-125: sns.publish succeeds; the handler then falls off its end
DPublish(p) ==
    /\ dpc[p] = "publish"
    /\ topic' = Append(topic, [message |-> Message(p), by |-> p,
                               now |-> now[p], last_sent |-> last_sent[p]])
    /\ dpc' = [dpc EXCEPT ![p] = "exit_published"]
    /\ dcalls' = [dcalls EXCEPT ![p] = Append(@, [op |-> "publish", arg |-> Message(p)])]
    /\ UNCHANGED <<fvars, evars, bw, store>>
    /\ UNCHANGED <<clock, table, parameter, undelivered, end_time, start_time, distribution,
                   stdev, last_sent, five_hours_ago, now>>

\* Mutation of DPublishFail: the failure puts the old checkpoint back.
DPublishFail_RollsBack(p) ==
    /\ dpc[p] = "publish"
    /\ dpc' = [dpc EXCEPT ![p] = "raised_publish"]
    /\ parameter' = last_sent[p]
    /\ dcalls' = [dcalls EXCEPT ![p] = Append(@, [op |-> "publish", arg |-> Message(p)])]
    /\ undelivered' = Append(undelivered, [by |-> p, now |-> now[p],
                                           last_sent |-> last_sent[p]])
    /\ UNCHANGED <<fvars, evars, bw, store>>
    /\ UNCHANGED <<clock, table, topic, end_time, start_time,
                   distribution, stdev, last_sent, five_hours_ago, now>>

\* lines 121-125: sns.publish raises (ClientError); nothing catches it
DPublishFail(p) ==
    /\ dpc[p] = "publish"
    /\ dpc' = [dpc EXCEPT ![p] = "raised_publish"]
    /\ dcalls' = [dcalls EXCEPT ![p] = Append(@, [op |-> "publish", arg |-> Message(p)])]
    /\ undelivered' = Append(undelivered, [by |-> p, now |-> now[p],
                                           last_sent |-> last_sent[p]])
    /\ UNCHANGED <<fvars, evars, bw, store>>
    /\ UNCHANGED <<clock, table, parameter, topic, end_time, start_time,
                   distribution, stdev, last_sent, five_hours_ago, now>>

DTerminal == {"exit_within_boundaries", "exit_too_soon", "exit_published",
              "raised_statistics", "raised_value", "raised_publish"}

\* The invocation is over; its locals are gone.
DReturn(p) ==
    /\ dpc[p] \in DTerminal
    /\ dpc' = [dpc EXCEPT ![p] = "idle"]
    /\ end_time' = [end_time EXCEPT ![p] = None]
    /\ start_time' = [start_time EXCEPT ![p] = None]
    /\ distribution' = [distribution EXCEPT ![p] = <<>>]
    /\ stdev' = [stdev EXCEPT ![p] = <<>>]
    /\ last_sent' = [last_sent EXCEPT ![p] = None]
    /\ five_hours_ago' = [five_hours_ago EXCEPT ![p] = None]
    /\ now' = [now EXCEPT ![p] = None]
    /\ dcalls' = [dcalls EXCEPT ![p] = <<>>]
    /\ UNCHANGED <<fvars, evars, bw, store>>
    /\ UNCHANGED <<clock, table, parameter, topic, undelivered>>

DStep(p) ==
    \/ DStartTime(p)
    \/ DScan(p)
    \/ DGetParameter(p)
    \/ DFiveHoursAgo(p)
    \/ DNow(p)
    \/ DPutParameter(p)
    \/ DPublish(p)
    \/ DPublishFail(p)
    \/ DReturn(p)

\* Non-overlapping invocations: the scheduler starts one only when none runs.
DInvokeAlone(p) ==
    /\ \A q \in DProcs : ~Running(q)
    /\ DInvoke(p)

Next ==
    \/ Tick
    \/ \E p \in DProcs : DInvokeAlone(p)
    \/ \E p \in DProcs : DStep(p)

Spec == Init /\ [][Next]_vars

\* The Detector over steady event rates (and the sample tables).
InitUniform ==
    /\ clock \in ClockValues
    /\ table \in SampleTables \cup UniformTables
    /\ parameter = LastNotificationInitial
    /\ topic = <<>>
    /\ undelivered = <<>>
    /\ DInit
    /\ FInit
    /\ api = [tweets |-> Tweets, pages |-> MaxPages, tokens |-> Tokens]
    /\ table0 = table
    /\ lastsent \in LastSentNames
    /\ bw = BwIdle
    /\ store = NoStore

SpecUniform == InitUniform /\ [][Next]_vars

\* A sustained anomaly with a working topic: the table holds the spike, every
\* publish succeeds.  Time advances, the scheduler keeps invoking the
\* Detector, a running invocation goes on.
DStepDelivered(p) ==
    \/ DStartTime(p)
    \/ DScan(p)
    \/ DGetParameter(p)
    \/ DFiveHoursAgo(p)
    \/ DNow(p)
    \/ DPutParameter(p)
    \/ DPublish(p)
    \/ DReturn(p)

NextSustained ==
    \/ Tick
    \/ \E p \in DProcs : DInvokeAlone(p)
    \/ \E p \in DProcs : DStepDelivered(p)

InitSustained == Init /\ table = SpikeTable

DetectorProgress ==
    /\ SF_vars(Tick)
    /\ WF_vars(\E p \in DProcs : DInvokeAlone(p))
    /\ \A p \in DProcs : WF_vars(DStepDelivered(p))

SpecSustained == InitSustained /\ [][NextSustained]_vars /\ DetectorProgress

\* Overlapping invocations (overlapping schedule fires, retries).
NextOverlap ==
    \/ Tick
    \/ \E p \in DProcs : DInvoke(p)
    \/ \E p \in DProcs : DStep(p)

\* Overlap is explored within one cooldown window, late in the model's horizon.
InitOverlap ==
    /\ Init
    /\ table = SpikeTable
    /\ clock >= (MaxHours - 1) * HourSeconds

SpecOverlap == InitOverlap /\ [][NextOverlap]_vars

-----------------------------------------------------------------------------
(* tweet_query.py: lambda_handler *)

FRunning(f) == fpc[f] # "idle"

\* lines 21-39: start_time = (now - QUERYTIME hours), next_token = "", again = True
FInvoke(f) ==
    /\ fpc[f] = "idle"
    /\ fstart_time' = [fstart_time EXCEPT ![f] = clock - QUERYTIME * HourSeconds]
    /\ next_token' = [next_token EXCEPT ![f] = ""]
    /\ fpc' = [fpc EXCEPT ![f] = "search"]
    /\ UNCHANGED <<clock, table, parameter, topic, undelivered, dvars, evars, bw, store>>
    /\ UNCHANGED <<querystring, status, meta, pending, nsearch, fputs, freturned,
                   fwrote>>

\* Mutation of FSearch: the request never returns.
FSearch_Hangs(f) ==
    /\ fpc[f] = "search"
    /\ FALSE
    /\ UNCHANGED vars

\* Mutation of FSearch: the publish on the zero-result path (commented out at
\* lines 77-79) is made.
FSearch_PublishesOnEmpty(f) ==
    /\ fpc[f] = "search"
    /\ querystring' = [querystring EXCEPT
                         ![f] = make_querystring(next_token[f], fstart_time[f])]
    /\ nsearch' = [nsearch EXCEPT ![f] = @ + 1]
    /\ \E res \in Responses(nsearch[f] + 1 >= api.pages) :
         /\ status' = [status EXCEPT ![f] = res.status]
         /\ IF request_failed(res.status)
            THEN /\ fpc' = [fpc EXCEPT ![f] = "exit_status"]
                 /\ UNCHANGED <<meta, pending, topic>>
            ELSE /\ meta' = [meta EXCEPT ![f] = res.meta]
                 /\ pending' = [pending EXCEPT ![f] = res.meta.result_count]
                 /\ fpc' = [fpc EXCEPT ![f] = IF no_results(res.meta.result_count)
                                              THEN "exit_no_results"
                                              ELSE "put_items"]
                 /\ topic' = IF no_results(res.meta.result_count)
                             THEN Append(topic, [message |-> res.meta, by |-> f,
                                                 now |-> None, last_sent |-> None])
                             ELSE topic
    /\ UNCHANGED <<clock, table, parameter, dvars, undelivered, evars, bw, store>>
    /\ UNCHANGED <<fstart_time, next_token, fputs, freturned, fwrote>>

\* lines 41-83: one GET of the search endpoint and the tests on its answer
FSearch(f) ==
    /\ fpc[f] = "search"
    /\ querystring' = [querystring EXCEPT
                         ![f] = make_querystring(next_token[f], fstart_time[f])]
    /\ nsearch' = [nsearch EXCEPT ![f] = @ + 1]
    /\ \E res \in Responses(nsearch[f] + 1 >= api.pages) :
         /\ status' = [status EXCEPT ![f] = res.status]
         /\ IF request_failed(res.status)
            THEN /\ fpc' = [fpc EXCEPT ![f] = "exit_status"]
                 /\ UNCHANGED <<meta, pending>>
            ELSE /\ meta' = [meta EXCEPT ![f] = res.meta]
                 /\ pending' = [pending EXCEPT ![f] = res.meta.result_count]
                 /\ fpc' = [fpc EXCEPT ![f] = IF no_results(res.meta.result_count)
                                              THEN "exit_no_results"
                                              ELSE "put_items"]
    /\ UNCHANGED <<clock, table, parameter, topic, undelivered, dvars, evars, bw, store>>
    /\ UNCHANGED <<fstart_time, next_token, fputs, freturned, fwrote>>

\* lines 88-98: one turn of the for loop over tweets_data["data"].  The code
\* does not look at a tweet before the loop reaches it, so the tweet is drawn
\* here.
FPutItem(f) ==
    /\ fpc[f] = "put_items"
    /\ pending[f] > 0
    /\ \E tweet \in api.tweets :
         /\ freturned' = [freturned EXCEPT ![f] = @ \cup {tweet.id}]
         /\ IF ~tweet.created_at.ok
            THEN \* parser.parse raises; nothing catches it
                 /\ fpc' = [fpc EXCEPT ![f] = "raised_parser"]
                 /\ UNCHANGED <<table, pending, fputs, fwrote>>
            ELSE /\ table' = put_item(table, tweet.id,
                                      parse_created_at(tweet.created_at))
                 /\ fwrote' = [fwrote EXCEPT
                                 ![f] = put_item(@, tweet.id,
                                                 parse_created_at(tweet.created_at))]
                 /\ pending' = [pending EXCEPT ![f] = @ - 1]
                 /\ fputs' = [fputs EXCEPT ![f][tweet.id] = @ + 1]
                 /\ fpc' = fpc
    /\ UNCHANGED <<clock, parameter, topic, dvars, undelivered, evars, bw, store>>
    /\ UNCHANGED <<fstart_time, next_token, querystring, status, meta, nsearch>>

\* lines 101-105: take the next_token, or leave the while loop
FNextToken(f) ==
    /\ fpc[f] = "put_items"
    /\ pending[f] = 0
    /\ IF meta[f].has_next
       THEN /\ next_token' = [next_token EXCEPT ![f] = meta[f].next_token]
            /\ fpc' = [fpc EXCEPT ![f] = "search"]
       ELSE /\ next_token' = next_token
            /\ fpc' = [fpc EXCEPT ![f] = "exit_done"]
    /\ UNCHANGED <<clock, table, parameter, topic, undelivered, dvars, evars, bw, store>>
    /\ UNCHANGED <<fstart_time, querystring, status, meta, pending, nsearch,
                   fputs, freturned, fwrote>>

FTerminal == {"exit_status", "exit_no_results", "exit_done", "raised_parser"}

\* The invocation is over; its locals are gone.
FReturn(f) ==
    /\ fpc[f] \in FTerminal
    /\ fpc' = [fpc EXCEPT ![f] = "idle"]
    /\ fstart_time' = [fstart_time EXCEPT ![f] = None]
    /\ next_token' = [next_token EXCEPT ![f] = ""]
    /\ querystring' = [querystring EXCEPT ![f] = NoQuery]
    /\ status' = [status EXCEPT ![f] = None]
    /\ meta' = [meta EXCEPT ![f] = NoMeta]
    /\ pending' = [pending EXCEPT ![f] = 0]
    /\ nsearch' = [nsearch EXCEPT ![f] = 0]
    /\ fputs' = [fputs EXCEPT ![f] = NoPuts]
    /\ freturned' = [freturned EXCEPT ![f] = {}]
    /\ fwrote' = [fwrote EXCEPT ![f] = EmptyTable]
    /\ UNCHANGED <<clock, table, parameter, topic, undelivered, dvars, evars, bw, store>>

\* Non-overlapping invocations of the Fetcher.
FInvokeAlone(f) ==
    /\ \A g \in FProcs : ~FRunning(g)
    /\ FInvoke(f)

NextFetcher ==
    \/ \E f \in FProcs : FInvokeAlone(f)
    \/ \E f \in FProcs : FSearch(f)
    \/ \E f \in FProcs : FPutItem(f)
    \/ \E f \in FProcs : FNextToken(f)
    \/ \E f \in FProcs : FReturn(f)

InitFetcher ==
    /\ Init
    /\ lastsent = EastLastSent
    /\ clock = MaxHours * HourSeconds
    /\ table = EmptyTable

SpecFetcher == InitFetcher /\ [][NextFetcher]_vars

\* A running invocation goes on: the handler is sequential code, every call
\* it makes returns.  Nothing obliges the scheduler to start an invocation.
FetcherProgress ==
    \A f \in FProcs :
        /\ WF_vars(FSearch(f))
        /\ WF_vars(FPutItem(f))
        /\ WF_vars(FNextToken(f))

SpecFetcherLive == InitFetcher /\ [][NextFetcher]_vars /\ FetcherProgress

\* Two invocations of the Fetcher at once (overlapping schedule fires,
\* retries), followed until both have ended.  The search API reports one
\* created_at for a tweet id, whichever invocation asks and on whichever page.
Corpora ==
    {{[id |-> i, created_at |-> c[i]] : i \in TweetIds} :
        c \in [TweetIds -> ApiStamps]}

\* The tables earlier fetches of the tweets in corpus can have left.
TablesOf(corpus) ==
    {[id \in {t.id : t \in ts} |->
         parse_created_at((CHOOSE t \in ts : t.id = id).created_at)] :
        ts \in SUBSET {t \in corpus : t.created_at.ok}}

NextFetcherOverlap ==
    \/ \E f \in FProcs : FInvoke(f)
    \/ \E f \in FProcs : FSearch(f)
    \/ \E f \in FProcs : FPutItem(f)
    \/ \E f \in FProcs : FNextToken(f)

InitFetcherOverlap ==
    /\ clock = MaxHours * HourSeconds
    /\ parameter = LastNotificationInitial
    /\ topic = <<>>
    /\ undelivered = <<>>
    /\ DInit
    /\ FInit
    /\ \E corpus \in Corpora :
         /\ api = [tweets |-> corpus, pages |-> MaxOverlapPages,
                  tokens |-> {"c1"}]
         /\ table \in TablesOf(corpus)
    /\ table0 = table
    /\ lastsent = EastLastSent
    /\ bw = BwIdle
    /\ store = NoStore

SpecFetcherOverlap == InitFetcherOverlap /\ [][NextFetcherOverlap]_vars

\* The Fetcher, invocation after invocation, and the Detector beside it, on
\* the same table.  The few tweets of the corpus never make a stdev of 100:
\* every Detector invocation returns after its scan.
NextRecords ==
    \/ \E f \in FProcs : FInvokeAlone(f)
    \/ \E f \in FProcs : FSearch(f)
    \/ \E f \in FProcs : FPutItem(f)
    \/ \E f \in FProcs : FNextToken(f)
    \/ \E f \in FProcs : FReturn(f)
    \/ \E p \in DProcs : DInvokeAlone(p)
    \/ \E p \in DProcs : DStartTime(p)
    \/ \E p \in DProcs : DScan(p)
    \/ \E p \in DProcs : DReturn(p)

SpecRecords == InitFetcherOverlap /\ [][NextRecords]_vars

\* The Fetcher and the Detector side by side at one instant, five hours after
\* the epoch of the model, on a table that holds the spike: the Detector
\* finds the anomaly, the Fetcher puts the tweet the search returns (tweet 1,
\* with any created_at) into the table.
NextSystem ==
    \/ \E f \in FProcs : FInvokeAlone(f)
    \/ \E f \in FProcs : FSearch(f)
    \/ \E f \in FProcs : FPutItem(f)
    \/ \E f \in FProcs : FNextToken(f)
    \/ \E f \in FProcs : FReturn(f)
    \/ \E p \in DProcs : DInvokeAlone(p)
    \/ \E p \in DProcs : DStep(p)

InitSystem ==
    /\ clock = CooldownHours * HourSeconds
    /\ table = SpikeTable
    /\ parameter = LastNotificationInitial
    /\ topic = <<>>
    /\ undelivered = <<>>
    /\ DInit
    /\ FInit
    /\ api = [tweets |-> {t \in Tweets : t.id = 1}, pages |-> MaxOverlapPages,
              tokens |-> {"c1"}]
    /\ table0 = table
    /\ lastsent \in LastSentNames
    /\ bw = BwIdle
    /\ store = NoStore

SpecSystem == InitSystem /\ [][NextSystem]_vars

-----------------------------------------------------------------------------
(* The bin walk and the stdev test of tweet_analyzer.py (lines 59-88) applied *)
(* to the inputs lambda_handler gives them: end_time is a clock read (line   *)
(* 37), start_time a later clock read less HOURS_AGO hours (line 38), the    *)
(* bin is one hour (line 60), the list holds scanned events of the window.   *)

\* Instants of the window from s to e at most MaxEdgeDistance from a bin edge.
EdgeTimes(s, e) ==
    {t \in {s + k * BinSeconds + j :
               k \in 0..HOURS_AGO, j \in (0 - MaxEdgeDistance)..MaxEdgeDistance} :
        s <= t /\ t <= e}

BwInputs ==
    UNION {{[phase |-> "input", list |-> l,
             start |-> e + d - HOURS_AGO * HourSeconds, end |-> e,
             i |-> BinSeconds, distribution |-> <<>>, outcome |-> ""] :
               l \in SeqsUpTo(EdgeTimes(e + d - HOURS_AGO * HourSeconds, e), 1)} :
           e \in ClockValues, d \in 0..MaxSec}

BwRun ==
    /\ bw.phase = "input"
    /\ \E dist \in {bin_walk(bw.list, bw.start, bw.end, bw.i)} :
         bw' = [bw EXCEPT !.phase = "done",
                          !.distribution = dist,
                          !.outcome = after_stdev(dist)]
    /\ UNCHANGED <<clock, table, parameter, topic, undelivered, dvars, fvars,
                   evars, store>>

NextBins == BwRun

InitBins ==
    /\ clock = 0
    /\ table = EmptyTable
    /\ parameter = LastNotificationInitial
    /\ topic = <<>>
    /\ undelivered = <<>>
    /\ DInit
    /\ FInit
    /\ api = [tweets |-> Tweets, pages |-> MaxPages, tokens |-> Tokens]
    /\ table0 = table
    /\ lastsent = EastLastSent
    /\ bw \in {b \in BwInputs :
                 \A k \in 1..Len(b.list) : b.start <= b.list[k] /\ b.list[k] <= b.end}
    /\ store = NoStore

SpecBins == InitBins /\ [][NextBins]_vars

-----------------------------------------------------------------------------
(* put_item of tweet_query.py applied to any sequence of events *)

Upsert ==
    /\ \E e \in Events :
         store' = [items |-> put_item_keyed(store.items, e),
                   last |-> <<e>>,
                   replaced |-> \E x \in store.items : KeyOf(x) = KeyOf(e)]
    /\ UNCHANGED <<clock, table, parameter, topic, undelivered, dvars, fvars,
                   evars, bw>>

NextUpsert == Upsert

InitUpsert ==
    /\ clock = 0
    /\ table = EmptyTable
    /\ parameter = LastNotificationInitial
    /\ topic = <<>>
    /\ undelivered = <<>>
    /\ DInit
    /\ FInit
    /\ api = [tweets |-> Tweets, pages |-> MaxPages, tokens |-> Tokens]
    /\ table0 = table
    /\ lastsent = EastLastSent
    /\ bw = BwIdle
    /\ store = NoStore

SpecUpsert == InitUpsert /\ [][NextUpsert]_vars

-----------------------------------------------------------------------------
(* Properties *)

Cooldown == CooldownHours * HourSeconds

\* How many calls of the kind op invocation p has made so far.
CountOp(p, op) == Cardinality({k \in 1..Len(dcalls[p]) : dcalls[p][k].op = op})

\* Invocation p computed a standard deviation, and it is below the threshold.
StdevKnown(p) == stdev[p] # <<>>
StdevUnder(p) == stdev[p][1] < Threshold * Threshold * stdev[p][2]

\* C1 (Spec): in non-overlapping runs any two notifications were published by
\* invocations whose `now` values are at least the cooldown apart.
C1_CooldownAcrossRuns ==
    \A i, j \in 1..Len(topic) :
        i < j => topic[j].now - topic[i].now >= Cooldown

\* Two notifications have been published.
C1_Witness == Len(topic) >= 2

\* C2 (SpecOverlap): when two notifications lie less than the cooldown apart,
\* neither publisher had read the other's checkpoint write: each read a
\* checkpoint older than the other's `now` and passed the gate on it.
C2_DuplicatesFromStaleReads ==
    \A i, j \in 1..Len(topic) :
        (i < j /\ topic[j].now - topic[i].now < Cooldown
               /\ topic[i].now - topic[j].now < Cooldown)
        => /\ topic[j].last_sent < topic[i].now
           /\ topic[i].last_sent < topic[j].now

\* The race: two invocations read the same expired checkpoint and both
\* published, less than the cooldown apart.
C2_Witness ==
    \E i, j \in 1..Len(topic) :
        /\ i < j
        /\ topic[i].by # topic[j].by
        /\ topic[i].last_sent = topic[j].last_sent
        /\ topic[j].now - topic[i].now < Cooldown
        /\ topic[i].now - topic[j].now < Cooldown

\* C3 (Spec): an invocation whose stdev is >= the threshold and whose read
\* checkpoint is <= now - cooldown ends having made exactly one publish call,
\* with the distribution and the stdev in the message, and with the checkpoint
\* equal to its now.
C3_NotifyPath ==
    \A p \in DProcs :
        (/\ dpc[p] \in DTerminal
         /\ StdevKnown(p) /\ ~StdevUnder(p)
         /\ last_sent[p] # None /\ now[p] # None
         /\ last_sent[p] <= now[p] - Cooldown)
        => /\ CountOp(p, "publish") = 1
           /\ \A k \in 1..Len(dcalls[p]) :
                 dcalls[p][k].op = "publish" =>
                    /\ dcalls[p][k].arg.distribution = distribution[p]
                    /\ dcalls[p][k].arg.stdev = stdev[p]
           /\ parameter = now[p]

\* C4 (Spec): an invocation whose stdev is >= the threshold and whose read
\* checkpoint is > now - cooldown makes no publish call and no checkpoint
\* write; the checkpoint still holds the value it read.
C4_CooldownGate ==
    \A p \in DProcs :
        (/\ StdevKnown(p) /\ ~StdevUnder(p)
         /\ last_sent[p] # None /\ now[p] # None
         /\ last_sent[p] > now[p] - Cooldown)
        => /\ dpc[p] = "exit_too_soon"
           /\ CountOp(p, "publish") = 0
           /\ CountOp(p, "put_parameter") = 0
           /\ parameter = last_sent[p]

\* An invocation was stopped by the gate one hour after a notification.
C4_Witness ==
    \E p \in DProcs :
        /\ dpc[p] = "exit_too_soon"
        /\ topic # <<>>
        /\ last_sent[p] = now[p] - HourSeconds

\* C5 (Spec): an invocation whose stdev is below the threshold ends at once:
\* its only external call is the table scan (no checkpoint read or write, no
\* publish).
C5_NoAnomalyPath ==
    \A p \in DProcs :
        (StdevKnown(p) /\ StdevUnder(p))
        => /\ dpc[p] = "exit_within_boundaries"
           /\ \A k \in 1..Len(dcalls[p]) : dcalls[p][k].op = "scan"
           /\ last_sent[p] = None

\* An invocation ended on a non-empty distribution below the threshold.
C5_Witness ==
    \E p \in DProcs :
        /\ dpc[p] = "exit_within_boundaries"
        /\ SumSeq(distribution[p]) > 0

\* C6 (SpecOverlap): every checkpoint write stores a value >= the value it
\* overwrites: the checkpoint never decreases.
C6_CheckpointNeverDecreases == [][parameter' >= parameter]_vars

\* C7 (SpecBins): the bin walk yields ceil((end_time - start_time) / B) bins.
C7_BinCount ==
    bw.phase = "done" =>
        Len(bw.distribution) = (bw.end - bw.start + bw.i - 1) \div bw.i

\* C8 (SpecFetcher): after n pages, each a success with a non-zero count and
\* all but the last with a cursor, the invocation has ended normally, having
\* put each returned id exactly once, one record per returned id in the table.
C8_PaginationCompleteness ==
    \A f \in FProcs :
        (/\ fpc[f] \in FTerminal
         /\ status[f] = StatusOK
         /\ meta[f].result_count # 0
         /\ ~meta[f].has_next)
        => /\ fpc[f] = "exit_done"
           /\ \A id \in freturned[f] : fputs[f][id] = 1 /\ id \in DOMAIN table

\* C9 (SpecFetcher): an answer that carries a cursor is followed by a further
\* request that sends that cursor; the invocation ends normally only after an
\* answer without a cursor.
C9_CursorContinuation ==
    \A f \in FProcs :
        /\ (fpc[f] \in FTerminal /\ status[f] = StatusOK) => ~meta[f].has_next
        /\ (fpc[f] = "search" /\ nsearch[f] >= 1) =>
              make_querystring(next_token[f], fstart_time[f]).next_token
                  = meta[f].next_token

\* The last answer of invocation f was a failure.
Failed(f) == status[f] # None /\ status[f] # StatusOK

\* C10 (SpecFetcher): once a search answers with a non-success status the
\* invocation is over: it makes no further search and no further put_item, and
\* the records it had put are and stay in the table.
C10_AbortOnRemoteFailure ==
    [][\A f \in FProcs :
          Failed(f) =>
             /\ fpc[f] = "exit_status"
             /\ nsearch'[f] <= nsearch[f]
             /\ fputs'[f] = fputs[f] \/ fpc'[f] = "idle"
             /\ \A id \in TweetIds :
                   fputs[f][id] > 0 => id \in DOMAIN table /\ id \in DOMAIN table']_vars

\* A search failed after earlier pages of the same invocation were stored.
C10_Witness ==
    \E f \in FProcs : Failed(f) /\ \E id \in TweetIds : fputs[f][id] > 0

\* C11 (SpecFetcher): an invocation whose first answer is a success with a
\* result count of zero is over after that one search call: it ends without an
\* exception, having made no put_item call and no publish.
C11_EmptyFirstPage ==
    \A f \in FProcs :
        (nsearch[f] = 1 /\ status[f] = StatusOK /\ meta[f].result_count = 0)
        => /\ fpc[f] = "exit_no_results"
           /\ fputs[f] = NoPuts
           /\ topic = <<>>

\* An invocation ended on an empty first page while an earlier invocation's
\* records are in the table.
C11_Witness ==
    \E f \in FProcs :
        /\ fpc[f] = "exit_no_results"
        /\ nsearch[f] = 1
        /\ table # EmptyTable

\* C12 (SpecUpsert): after any sequence of upserts the store holds at most one
\* item per tweetID, and for every event upserting it twice gives the store
\* that upserting it once gives; the table tweetID -> created_at of the other
\* specifications is the same store.
C12_UpsertIdempotentUniqueKey ==
    /\ \A x, y \in store.items : x.tweetID = y.tweetID => x = y
    /\ \A e \in Events :
          /\ put_item_keyed(put_item_keyed(store.items, e), e)
                = put_item_keyed(store.items, e)
          /\ AsItems(put_item(AsTable(store.items), e.tweetID, e.created_at))
                = put_item_keyed(store.items, e)

\* An upsert replaced the item of an id the store already held, other ids
\* being stored as well.
C12_Witness ==
    /\ store.replaced
    /\ store.last[1] \in store.items
    /\ Cardinality(store.items) >= 2

\* What an invocation that makes the put_item calls of f leaves of tbl when
\* it runs alone: the records f wrote, and the other records of tbl.
RunAlone(tbl, f) ==
    [k \in DOMAIN tbl \cup DOMAIN fwrote[f] |->
        IF k \in DOMAIN fwrote[f] THEN fwrote[f][k] ELSE tbl[k]]

\* C13 (SpecFetcherOverlap): at every point of every interleaving of two
\* concurrent invocations, and so when both have ended, the table is the one
\* that their put_item calls leave when one invocation runs after the other,
\* in either order; it holds one record per tweet id.
C13_ConcurrentFetchersCommute ==
    \A f, g \in FProcs :
        f # g =>
           /\ table = RunAlone(RunAlone(table0, f), g)
           /\ Cardinality(AsItems(table)) = Cardinality(DOMAIN table)

\* Both invocations are in the middle of a page, each having put the same
\* tweet id, on top of a record an earlier fetch had left.
C13_Witness ==
    \E f, g \in FProcs : \E id \in TweetIds :
        /\ f # g
        /\ fpc[f] = "put_items" /\ pending[f] > 0 /\ fputs[f][id] > 0
        /\ fpc[g] = "put_items" /\ pending[g] > 0 /\ fputs[g][id] > 0
        /\ table0 # EmptyTable

\* C15 (SpecFetcher): a created_at that cannot be parsed costs only its own
\* record: the invocation does not end by the parser's exception, and it ends
\* only when the loop has been through every tweet of the page.
C15_MalformedTimestampIsolation ==
    \A f \in FProcs :
        /\ fpc[f] # "raised_parser"
        /\ (fpc[f] \in FTerminal /\ status[f] = StatusOK) => pending[f] = 0

\* The kinds of the external calls invocation p has made, in order.
CallOps(p) == [k \in 1..Len(dcalls[p]) |-> dcalls[p][k].op]

\* The calls of the longest path through the handler.
NotifyCalls == <<"scan", "get_parameter", "put_parameter", "publish">>

\* Invocation p is past the cooldown gate: it writes the checkpoint and
\* publishes (NOTIFYING), or has done so.
Notifying(p) ==
    dpc[p] \in {"put_parameter", "publish", "exit_published", "raised_publish"}

\* C16 (Spec): an invocation makes its calls in the order scan, checkpoint
\* read, checkpoint write, publish, each at most once, and ends on one of three
\* paths: after the scan (no anomaly), after the checkpoint read (anomaly,
\* cooling down), or after the write and the publish attempt (NOTIFYING);
\* NOTIFYING is entered only with a stdev >= the threshold and a checkpoint
\* read that is <= now - cooldown.
C16_DetectorStateMachine ==
    \A p \in DProcs :
        /\ Len(dcalls[p]) <= Len(NotifyCalls)
        /\ CallOps(p) = SubSeq(NotifyCalls, 1, Len(dcalls[p]))
        /\ dpc[p] \in DTerminal =>
              \/ dpc[p] = "exit_within_boundaries" /\ Len(dcalls[p]) = 1
              \/ dpc[p] = "exit_too_soon" /\ Len(dcalls[p]) = 2
              \/ dpc[p] \in {"exit_published", "raised_publish"}
                    /\ Len(dcalls[p]) = 4
        /\ Notifying(p) =>
              /\ StdevKnown(p) /\ ~StdevUnder(p)
              /\ last_sent[p] <= now[p] - Cooldown
        /\ Len(dcalls[p]) > 2 => Notifying(p)

\* C17 (SpecRecords): no step of the Fetcher or of the Detector, in any
\* invocation, removes a record of the table or changes its created_at (the
\* search API reporting one created_at per tweet id).
C17_RecordsImmutable ==
    [][\A id \in DOMAIN table :
          id \in DOMAIN table' /\ table'[id] = table[id]]_vars

\* The Fetcher has put again a tweet whose record an earlier fetch had left,
\* and a Detector invocation has scanned the table and returned.
C17_Witness ==
    /\ \E f \in FProcs : \E id \in DOMAIN table0 : fputs[f][id] > 0
    /\ \E p \in DProcs :
          dpc[p] = "exit_within_boundaries" /\ SumSeq(distribution[p]) > 0

\* C18 (Spec): a publish call of an invocation comes after that invocation's
\* put_parameter call, which wrote its now; once the publish has been
\* attempted, whether it succeeded or raised, the checkpoint holds that now.
C18_WriteBeforePublish ==
    \A p \in DProcs :
        \A k \in 1..Len(dcalls[p]) :
            dcalls[p][k].op = "publish" =>
               /\ \E j \in 1..(k - 1) :
                     /\ dcalls[p][j].op = "put_parameter"
                     /\ dcalls[p][j].arg = now[p]
               /\ parameter = now[p]

\* A publish has been attempted (and raised) with the checkpoint already moved
\* from the value the invocation had read to its now.
C18_Witness ==
    \E p \in DProcs :
        /\ dpc[p] = "raised_publish"
        /\ parameter = now[p]
        /\ last_sent[p] # now[p]
        /\ topic # <<>>

\* C19 (Spec): after a publish that raised in an invocation whose now is L,
\* the checkpoint is L (until a later invocation writes a later now) and no
\* message of that invocation is on the topic; an invocation that finds an
\* anomaly and reads L less than the cooldown after L stops at the gate, and
\* no notification is published in the cooldown that follows L.
C19_LostNotification ==
    \A u \in 1..Len(undelivered) :
        LET L == undelivered[u].now IN
        /\ parameter >= L
        /\ (/\ \A k \in 1..Len(topic) : topic[k].now < L
            /\ \A v \in 1..Len(undelivered) : undelivered[v].now <= L
            /\ \A q \in DProcs : Notifying(q) => now[q] <= L)
           => parameter = L
        /\ \A k \in 1..Len(topic) :
              ~(L <= topic[k].now /\ topic[k].now < L + Cooldown)
        /\ \A q \in DProcs :
              (last_sent[q] = L /\ now[q] # None /\ now[q] < L + Cooldown)
              => /\ dpc[q] = "exit_too_soon"
                 /\ CountOp(q, "publish") = 0

\* An invocation that found an anomaly was stopped by the checkpoint of an
\* invocation whose publish had raised: nothing has been delivered.
C19_Witness ==
    \E q \in DProcs : \E u \in 1..Len(undelivered) :
        /\ dpc[q] = "exit_too_soon"
        /\ last_sent[q] = undelivered[u].now
        /\ ~StdevUnder(q)
        /\ topic = <<>>

\* C20 (SpecBins): the upper edge of the last counted bin is at least
\* end_time, and every scanned event (start_time <= created_at <= end_time) is
\* counted in at least one bin: the distribution sums to at least the number
\* of scanned events.
C20_BinsCoverWindow ==
    bw.phase = "done" =>
        /\ bw.start + Len(bw.distribution) * bw.i >= bw.end
        /\ SumSeq(bw.distribution) >= Len(bw.list)

\* C21 (SpecBins): bin k counts the events with min <= created_at <= max, both
\* ends included: an event on the edge between two counted bins is counted in
\* both of them (and in no other), an event strictly inside a counted bin in
\* that bin alone.
C21_InclusiveBinEdges ==
    (bw.phase = "done" /\ Len(bw.list) = 1) =>
        LET e == bw.list[1]
            n == Len(bw.distribution)
            edge(k) == bw.start + k * bw.i
        IN  /\ \A k \in 1..(n - 1) :
                  e = edge(k) =>
                     /\ bw.distribution[k] = 1
                     /\ bw.distribution[k + 1] = 1
                     /\ SumSeq(bw.distribution) = 2
            /\ \A k \in 1..n :
                  (edge(k - 1) < e /\ e < edge(k)) =>
                     /\ bw.distribution[k] = 1
                     /\ SumSeq(bw.distribution) = 1

\* An event on the edge between the first two of six bins was counted twice.
C21_Witness ==
    /\ bw.phase = "done"
    /\ Len(bw.list) = 1
    /\ Len(bw.distribution) = 6
    /\ bw.list[1] = bw.start + bw.i
    /\ bw.distribution = <<1, 1, 0, 0, 0, 0>>

\* C22 (SpecFetcher): the first request of an invocation carries
\* start_time (the invocation's lookback) and no next_token; every later
\* request carries as next_token the cursor of the answer just before it, and
\* no start_time.
C22_RequestParameters ==
    [][\A f \in FProcs :
          nsearch'[f] = nsearch[f] + 1 =>
             IF nsearch[f] = 0
             THEN querystring'[f] = [next_token |-> Absent,
                                     start_time |-> fstart_time[f]]
             ELSE /\ meta[f].has_next
                  /\ querystring'[f] = [next_token |-> meta[f].next_token,
                                        start_time |-> None]]_vars

\* C23 (SpecSystem): a step of the Fetcher (whatever the answer: a page, an
\* empty page, a failure) leaves the checkpoint, the topic and the Detector's
\* calls, get_parameter among them, as they are; a step of the Detector leaves
\* the table as it is; the checkpoint changes only by the put_parameter of a
\* Detector invocation that is past the gate.
C23_ComponentIsolation ==
    [][/\ fvars' # fvars =>
             /\ parameter' = parameter
             /\ topic' = topic
             /\ undelivered' = undelivered
             /\ dcalls' = dcalls
       /\ dvars' # dvars => table' = table
       /\ parameter' # parameter =>
             \E p \in DProcs :
                /\ dpc[p] = "put_parameter"
                /\ dpc'[p] = "publish"
                /\ ~StdevUnder(p)
                /\ last_sent[p] <= five_hours_ago[p]
                /\ parameter' = now[p]]_vars

\* A Fetcher invocation has ended on each of its three paths (the last one
\* still there) while the Detector has notified: the table has changed, the
\* checkpoint is the Detector's.
C23_Witness ==
    /\ \E f \in FProcs : fpc[f] \in {"exit_status", "exit_no_results", "exit_done"}
    /\ table # table0
    /\ parameter # LastNotificationInitial
    /\ topic # <<>>

\* C24 (SpecFetcherLive): against a search API whose chain of cursors is
\* finite (the answer number api.pages carries none), every invocation of the
\* Fetcher that has started comes to its end, by a return or by an exception.
C24_FetcherTermination ==
    \A f \in FProcs : (fpc[f] = "search") ~> (fpc[f] \in FTerminal)

\* An invocation went through the whole chain of cursors: it made as many
\* requests as the API has pages, and returned after the page without cursor.
C24_Witness ==
    \E f \in FProcs :
        /\ fpc[f] = "exit_done"
        /\ nsearch[f] = MaxPages
        /\ ~meta[f].has_next

\* The last instant of the model's clock.
MaxClock == MaxHours * HourSeconds + MaxSec

\* An ended invocation that found the anomaly and whose now - cooldown is >=
\* the checkpoint it read has published.
FirstEligiblePublishes ==
    \A p \in DProcs :
        (/\ dpc[p] \in DTerminal
         /\ StdevKnown(p) /\ ~StdevUnder(p)
         /\ last_sent[p] # None /\ now[p] # None
         /\ now[p] - Cooldown >= last_sent[p])
        => dpc[p] = "exit_published"

\* C25 (SpecSustained): with the anomaly sustained, every publish succeeding,
\* time advancing and the Detector invoked again and again without overlap,
\* a notification is followed by another one (as far as the clock of the model
\* reaches), and it is published by the first invocation whose now - cooldown
\* is >= the stored checkpoint.
C25_NotificationRecurs ==
    /\ (Len(topic) = 1 /\ topic[1].now + Cooldown <= MaxClock)
          ~> (Len(topic) >= 2)
    /\ []FirstEligiblePublishes

\* All bins of the distribution hold the same count.
Uniform(dist) == Len(dist) >= 1 /\ \A k \in 1..Len(dist) : dist[k] = dist[1]

\* C26 (SpecUniform): when all bin counts of the distribution are equal, the
\* standard deviation is 0, it is below every threshold T > 0, and the
\* invocation ends without a publish call and without a checkpoint write.
C26_UniformNeverAnomaly ==
    \A p \in DProcs :
        (dpc[p] \in DTerminal /\ Uniform(distribution[p]))
        => /\ StdevKnown(p)
           /\ stdev[p][1] = 0 /\ stdev[p][2] > 0
           /\ \A t \in 1..MaxThreshold : stdev[p][1] < t * t * stdev[p][2]
           /\ dpc[p] = "exit_within_boundaries"
           /\ CountOp(p, "publish") = 0
           /\ CountOp(p, "put_parameter") = 0

\* An invocation ended on a distribution whose bins all hold the same count,
\* above the threshold of the handler.
C26_Witness ==
    \E p \in DProcs :
        /\ dpc[p] = "exit_within_boundaries"
        /\ Uniform(distribution[p])
        /\ distribution[p][1] > Threshold
        /\ Len(distribution[p]) >= 2

\* C27 (Spec): with the checkpoint at its provisioned initial value and the
\* clock at or past the cooldown, an invocation that finds the anomaly passes
\* the gate: it writes its now to the checkpoint and makes its publish call.
C27_FirstAlertNotSuppressed ==
    \A p \in DProcs :
        (/\ dpc[p] \in DTerminal
         /\ StdevKnown(p) /\ ~StdevUnder(p)
         /\ end_time[p] >= Cooldown
         /\ \/ last_sent[p] = LastNotificationInitial
            \/ last_sent[p] = None /\ parameter = LastNotificationInitial)
        => /\ dpc[p] \in {"exit_published", "raised_publish"}
           /\ CountOp(p, "put_parameter") = 1
           /\ CountOp(p, "publish") = 1
           /\ parameter = now[p]

=============================================================================
